---- MODULE Spec2Model ----
(***************************************************************************)
(* Model of the TMDB cleaning toolkit: missing-value imputation and        *)
(* removal (data_cleaning.py, handle_missing_values.py), feature selection *)
(* (select_features.py, data_cleaning.py), the row filters of              *)
(* clean_dataset.py and the zip ingestor of ingest_data.py.                *)
(*                                                                         *)
(* A table (pandas DataFrame) is a record                                  *)
(*    [cols, kinds, index, rows]                                           *)
(* cols  : the column labels, in order                                     *)
(* kinds : the dtype family of each column ("num", "text", "object")       *)
(* index : the row labels, in order                                        *)
(* rows  : the rows, each a sequence of cells aligned with cols            *)
(* A cell is a record [t, n, d, s]: missing (t = "nan"), the rational n/d  *)
(* in lowest terms (t = "num") or the text s (t = "str").                  *)
(***************************************************************************)
EXTENDS Integers, Sequences, FiniteSets, TLC

VARIABLES
    df,        \* the table the caller passes to the operation
    strategy,  \* MissingValueHandler._strategy
    call,      \* the call made: its entry point and arguments
    ret,       \* its outcome: [status, table]
    files,     \* CSV files written so far: set of [path, cols, rows]
    rawdir,    \* names of the files in ../data/raw
    fslog,     \* filesystem operations performed by ingest, in order
    archive,   \* what lies at the path handed to ingest
    logged,    \* the counts of removed entries written to the log, in order
    prev,      \* the call before, when this call was made on the table it returned
    pc         \* "ready" before the call, "done" after it

vars == <<df, strategy, call, ret, files, rawdir, fslog, archive, logged, prev, pc>>

(***************************************************************************)
(* Bounds of the model.                                                    *)
(***************************************************************************)
MaxRows == 3
MaxThresh == 2

(***************************************************************************)
(* Cells.                                                                  *)
(***************************************************************************)
NaN == [t |-> "nan", n |-> 0, d |-> 1, s |-> ""]
Num(k) == [t |-> "num", n |-> k, d |-> 1, s |-> ""]
Str(x) == [t |-> "str", n |-> 0, d |-> 1, s |-> x]
\* Python None passed as fill_value
NoValue == [t |-> "none", n |-> 0, d |-> 1, s |-> ""]
\* Python None passed as thresh
NoThresh == -1

IsNa(c) == c.t = "nan"
NotNa(c) == c.t # "nan"

Abs(k) == IF k < 0 THEN -k ELSE k

RECURSIVE Gcd(_, _)
Gcd(a, b) == IF b = 0 THEN a ELSE Gcd(b, a % b)

\* the float n/d, kept exact as a fraction in lowest terms
Rat(n, d) ==
    LET g == Gcd(Abs(n), d)
    IN  [t |-> "num", n |-> n \div g, d |-> d \div g, s |-> ""]

\* rank of a text value in Python's string order
TextRank(x) == IF x = "a" THEN 1 ELSE IF x = "b" THEN 2 ELSE 3

\* a < b for two present cells of one column
CellLess(a, b) ==
    IF a.t = "num" /\ b.t = "num" THEN a.n * b.d < b.n * a.d
    ELSE IF a.t = "str" /\ b.t = "str" THEN TextRank(a.s) < TextRank(b.s)
    ELSE a.t = "num" /\ b.t = "str"

(***************************************************************************)
(* Tables.                                                                 *)
(***************************************************************************)
NoTable == [none |-> TRUE]

NRows(t) == Len(t.rows)
NCols(t) == Len(t.cols)

\* column j of t, as a sequence of cells
Column(t, j) == [i \in 1..NRows(t) |-> t.rows[i][j]]

\* df.copy(): a new table with the same labels and cells
Copy(t) == [cols |-> t.cols, kinds |-> t.kinds, index |-> t.index, rows |-> t.rows]

NumericColumns(t) == {j \in 1..NCols(t) : t.kinds[j] = "num"}

Present(col) == SelectSeq(col, NotNa)

RECURSIVE SumN(_)
SumN(col) == IF col = <<>> THEN 0 ELSE Head(col).n + SumN(Tail(col))

\* mutant: divides the sum by the number of rows, missing ones included
Mean_overAllRows(col) ==
    LET p == Present(col)
    IN  IF p = <<>> THEN NaN ELSE Rat(SumN(p), Len(col))

\* Series.mean(): skips missing cells; NaN when none is left
Mean(col) ==
    LET p == Present(col)
    IN  IF p = <<>> THEN NaN ELSE Rat(SumN(p), Len(p))

RECURSIVE Insert(_, _)
Insert(c, sorted) ==
    IF sorted = <<>> THEN <<c>>
    ELSE IF CellLess(c, Head(sorted)) THEN <<c>> \o sorted
    ELSE <<Head(sorted)>> \o Insert(c, Tail(sorted))

RECURSIVE Sorted(_)
Sorted(col) == IF col = <<>> THEN <<>> ELSE Insert(Head(col), Sorted(Tail(col)))

\* Series.median(): skips missing cells; the middle value, or the mean of the
\* two middle values; NaN when none is left
Median(col) ==
    LET p == Sorted(Present(col))
        k == Len(p)
    IN  IF k = 0 THEN NaN
        ELSE IF k % 2 = 1 THEN p[(k + 1) \div 2]
        ELSE Rat(p[k \div 2].n + p[k \div 2 + 1].n, 2)

Count(col, c) == Cardinality({i \in 1..Len(col) : col[i] = c})

\* Series.mode(): the most frequent present values, in ascending order
Mode(col) ==
    LET p == Present(col)
        best == {i \in 1..Len(p) : \A k \in 1..Len(p) : Count(p, p[k]) <= Count(p, p[i])}
        firsts == {i \in best : \A k \in 1..(i - 1) : p[k] # p[i]}
    IN  Sorted([i \in 1..Cardinality(firsts) |->
                  p[CHOOSE m \in firsts : Cardinality({q \in firsts : q < m}) = i - 1]])

\* dtype family of a column after its missing cells were filled with v
KindAfterFill(kind, col, v) ==
    IF \E i \in 1..Len(col) : IsNa(col[i]) /\ v.t = "str" /\ kind = "num"
    THEN "object" ELSE kind

\* t with each column j of js filled by fill[j]
FillColumns(t, js, fill) ==
    [cols |-> t.cols,
     kinds |-> [j \in 1..NCols(t) |->
                  IF j \in js THEN KindAfterFill(t.kinds[j], Column(t, j), fill[j])
                  ELSE t.kinds[j]],
     index |-> t.index,
     rows |-> [i \in 1..NRows(t) |->
                 [j \in 1..NCols(t) |->
                    IF j \in js /\ IsNa(t.rows[i][j]) THEN fill[j] ELSE t.rows[i][j]]]]

RECURSIVE Pick(_, _, _)
\* the elements of seq at the positions in keep, from position i on, in order
Pick(seq, keep, i) ==
    IF i > Len(seq) THEN <<>>
    ELSE (IF i \in keep THEN <<seq[i]>> ELSE <<>>) \o Pick(seq, keep, i + 1)

\* boolean-mask row selection: the rows at the positions in keep, labels kept
TakeRows(t, keep) ==
    [cols |-> t.cols, kinds |-> t.kinds,
     index |-> Pick(t.index, keep, 1), rows |-> Pick(t.rows, keep, 1)]

\* boolean-mask column selection
TakeColumns(t, keep) ==
    [cols |-> Pick(t.cols, keep, 1), kinds |-> Pick(t.kinds, keep, 1),
     index |-> t.index,
     rows |-> [i \in 1..NRows(t) |-> Pick(t.rows[i], keep, 1)]]

NonNullInRow(t, i) == Cardinality({j \in 1..NCols(t) : NotNa(t.rows[i][j])})
NonNullInColumn(t, j) == Cardinality({i \in 1..NRows(t) : NotNa(t.rows[i][j])})

(***************************************************************************)
(* The pandas builds the code can run on (no version is pinned).  They     *)
(* differ in three places the code reaches:                                *)
(*   dropna(thresh=None)   1.4 and earlier read None as "not given";       *)
(*                         later builds compare the counts with None,      *)
(*                         which is False for every row or column          *)
(*   fillna(None)          raises ValueError before 3.0; 3.0 accepts None  *)
(*                         and fills with the missing value itself         *)
(*   column.fillna(..., inplace=True) on df[column]                        *)
(*                         writes through to df before 3.0; under 3.0's    *)
(*                         copy-on-write it updates a temporary only       *)
(***************************************************************************)
Builds == {"pandas_1_4", "pandas_2", "pandas_3"}

\* mutant: a row or column needs more than thresh present cells to stay
Dropna_strict(t, axis, thresh, build) ==
    LET enough(n, full) ==
            IF thresh # NoThresh THEN n > thresh
            ELSE IF build = "pandas_1_4" THEN n = full
            ELSE FALSE
    IN  IF axis = 0
        THEN TakeRows(t, {i \in 1..NRows(t) : enough(NonNullInRow(t, i), NCols(t))})
        ELSE TakeColumns(t, {j \in 1..NCols(t) : enough(NonNullInColumn(t, j), NRows(t))})

\* DataFrame.dropna(axis=axis, thresh=thresh)
Dropna(t, axis, thresh, build) ==
    LET enough(n, full) ==
            IF thresh # NoThresh THEN n >= thresh
            ELSE IF build = "pandas_1_4" THEN n = full
            ELSE FALSE
    IN  IF axis = 0
        THEN TakeRows(t, {i \in 1..NRows(t) : enough(NonNullInRow(t, i), NCols(t))})
        ELSE TakeColumns(t, {j \in 1..NCols(t) : enough(NonNullInColumn(t, j), NRows(t))})

(***************************************************************************)
(* Outcomes and files.                                                     *)
(***************************************************************************)
\* what a call produced: its status ("ok" or the exception raised), the table
\* returned (NoTable when it raised) and the files it wrote
Outcome(status, table, written) == [status |-> status, table |-> table, written |-> written]

Raise(error) == Outcome(error, NoTable, {})

\* DataFrame.to_csv(dir/name.csv, index=False): labels and cells, no row labels
CsvFile(dir, name, t) == [dir |-> dir, name |-> name, cols |-> t.cols, rows |-> t.rows]

\* save_data(name, df)
save_data(name, t) == Outcome("ok", t, {CsvFile("data/interm", name, t)})

(***************************************************************************)
(* data_cleaning.py: CleanHandler.clean_missing_values                     *)
(***************************************************************************)
\* lines 87-100: mean / median over the numeric columns
FillNumeric(t, method) ==
    LET numeric_columns == NumericColumns(t)
        fill_values == [j \in numeric_columns |->
                          IF method = "mean" THEN Mean(Column(t, j)) ELSE Median(Column(t, j))]
    IN  IF numeric_columns = {} THEN t
        ELSE FillColumns(t, numeric_columns, fill_values)

\* whether df[column].mode().iloc[0] raises IndexError for some column
ModeFails(t) == \E j \in 1..NCols(t) : Mode(Column(t, j)) = <<>>

\* lines 102-106: every column filled with the first entry of its mode
FillMode(t) ==
    FillColumns(t, 1..NCols(t), [j \in 1..NCols(t) |-> Mode(Column(t, j))[1]])

\* mutant: drops the rows that hold a missing cell instead of filling them
FillConstant_dropsRows(t, fill_value) ==
    TakeRows(t, {i \in 1..NRows(t) : NonNullInRow(t, i) = NCols(t)})

\* mutant: fills the numeric columns only
FillConstant_numericOnly(t, fill_value) ==
    FillColumns(t, NumericColumns(t), [j \in 1..NCols(t) |-> fill_value])

\* line 113: DataFrame.fillna(fill_value) with a value
FillConstant(t, fill_value) ==
    FillColumns(t, 1..NCols(t), [j \in 1..NCols(t) |-> fill_value])

\* lines 131-138: the save step
SaveStep(t, save, name) ==
    IF save
    THEN IF name = "" THEN Raise("ValueError") ELSE save_data(name, t)
    ELSE Outcome("ok", t, {})

\* lines 123-127: an unknown method returns the copy at once
UnknownMethod(t) == Outcome("ok", t, {})

clean_missing_values(t, method, fill_value, axis, thresh, save, name, build) ==
    LET df_cleaned == Copy(t)
    IN  IF method \in {"mean", "median"}
        THEN SaveStep(FillNumeric(df_cleaned, method), save, name)
        ELSE IF method = "mode"
        THEN IF ModeFails(t) THEN Raise("IndexError")
             ELSE SaveStep(FillMode(df_cleaned), save, name)
        ELSE IF method = "constant"
        THEN IF fill_value = NoValue THEN Raise("ValueError")
             ELSE SaveStep(FillConstant(df_cleaned, fill_value), save, name)
        ELSE IF method = "drop"
        THEN SaveStep(Dropna(df_cleaned, axis, thresh, build), save, name)
        ELSE UnknownMethod(df_cleaned)

\* lines 116-121: the drop branch logs len(df_cleaned) before dropna minus
\* len(df_cleaned) after it; the length of a table is its number of rows
Reported(t, method, axis, thresh, build) ==
    IF method = "drop"
    THEN LET original_rows == NRows(t)
             final_rows == NRows(Dropna(t, axis, thresh, build))
         IN  <<original_rows - final_rows>>
    ELSE <<>>

(***************************************************************************)
(* handle_missing_values.py                                                *)
(***************************************************************************)
\* DropMissingValues(axis, thresh).handle(df)
DropMissingValues_handle(t, axis, thresh, build) ==
    Outcome("ok", Dropna(t, axis, thresh, build), {})

\* mutant: an unknown method falls back to the default method, mean
UnknownFillMethod_fallsBackToMean(t) ==
    Outcome("ok", FillColumns(t, NumericColumns(t),
                              [j \in NumericColumns(t) |-> Mean(Column(t, j))]), {})

\* lines 96-102: an unknown method logs a warning and returns the copy
UnknownFillMethod(t) == Outcome("ok", t, {})

\* FillMissingValues(method, fill_value).handle(df)
FillMissingValues_handle(t, method, fill_value, build) ==
    LET df_cleaned == Copy(t)
    IN  IF method \in {"mean", "median"}
        THEN Outcome("ok", FillColumns(df_cleaned, NumericColumns(df_cleaned),
                             [j \in NumericColumns(t) |->
                                IF method = "mean" THEN Mean(Column(t, j))
                                ELSE Median(Column(t, j))]), {})
        ELSE IF method = "mode"
        THEN IF ModeFails(t) THEN Raise("IndexError")
             ELSE IF build = "pandas_3" THEN Outcome("ok", df_cleaned, {})
             ELSE Outcome("ok", FillMode(df_cleaned), {})
        ELSE IF method = "constant"
        THEN IF fill_value = NoValue
             THEN IF build = "pandas_3" THEN Outcome("ok", df_cleaned, {})
                  ELSE Raise("ValueError")
             ELSE Outcome("ok", FillConstant(df_cleaned, fill_value), {})
        ELSE UnknownFillMethod(df_cleaned)

\* a strategy object: its class and constructor arguments
FillStrategy(method, fill_value) ==
    [cls |-> "FillMissingValues", method |-> method, fill_value |-> fill_value,
     axis |-> 0, thresh |-> NoThresh]
DropStrategy(axis, thresh) ==
    [cls |-> "DropMissingValues", method |-> "", fill_value |-> NoValue,
     axis |-> axis, thresh |-> thresh]
NoStrategy ==
    [cls |-> "none", method |-> "", fill_value |-> NoValue, axis |-> 0, thresh |-> NoThresh]

\* mutant: the strategy set at construction stays
set_strategy_keepsOld(old, s) == old

\* MissingValueHandler.set_strategy(strategy): the value of self._strategy
\* afterwards
set_strategy(old, s) == s

\* self._strategy.handle(df)
StrategyHandle(s, t, build) ==
    IF s.cls = "DropMissingValues"
    THEN DropMissingValues_handle(t, s.axis, s.thresh, build)
    ELSE FillMissingValues_handle(t, s.method, s.fill_value, build)

\* MissingValueHandler.handle_missing_values(df, save, name)
handle_missing_values(s, t, save, name, build) ==
    LET cleaned == StrategyHandle(s, t, build)
    IN  IF cleaned.status # "ok" THEN cleaned
        ELSE IF save
        THEN IF name = "" THEN Raise("ValueError")
             ELSE Outcome("ok", cleaned.table,
                          {CsvFile("../data/interm", name, cleaned.table)})
        ELSE cleaned

(***************************************************************************)
(* Calls.                                                                  *)
(***************************************************************************)
NoCall ==
    [op |-> "none", method |-> "", fill_value |-> NoValue, axis |-> 0,
     thresh |-> NoThresh, save |-> FALSE, name |-> "", features |-> <<>>, path |-> <<>>,
     strategy |-> NoStrategy]

NoRet == [status |-> "none", table |-> NoTable]

NoArchive == [kind |-> "none", entries |-> {}]

\* no call was made before this one
NoPrev == [call |-> NoCall, ret |-> NoRet]

\* the files on disk after the files in written were written
Written(old, written) ==
    {f \in old : \A w \in written : ~(w.dir = f.dir /\ w.name = f.name)} \cup written

\* the call returns or raises
Return(c, out) ==
    /\ call' = c
    /\ ret' = [status |-> out.status, table |-> out.table]
    /\ files' = Written(files, out.written)
    /\ pc' = "done"

(***************************************************************************)
(* Object identity.  The table the caller passes is one object.  A write   *)
(* made in place (a column assignment, fillna(inplace=True)) changes the   *)
(* object it is aimed at, and the caller sees it exactly when that object  *)
(* is the caller's own table.                                              *)
(***************************************************************************)
Caller == "caller"
Fresh == "fresh"

\* mutant: df_cleaned = df, the working table is the caller's object
CopyObject_alias(obj) == obj

\* the object df.copy() returns: a new one
CopyObject(obj) == Fresh

RECURSIVE FillModeFrom(_, _, _)
\* the loop over the columns from column j on, writing into the working table
\* w: it stops at the end or at the first column of t that has no mode
FillModeFrom(t, w, j) ==
    IF j > NCols(t) \/ Mode(Column(t, j)) = <<>> THEN w
    ELSE FillModeFrom(t, FillColumns(w, {j}, [k \in {j} |-> Mode(Column(t, j))[1]]), j + 1)

\* df_cleaned of clean_missing_values when the call stops, as far as it was
\* written in place: mean and median assign the numeric columns, mode assigns
\* column after column; constant and drop rebind the name and write nothing
WorkingTable_clean(t, method) ==
    IF method \in {"mean", "median"} THEN FillNumeric(t, method)
    ELSE IF method = "mode" THEN FillModeFrom(t, t, 1)
    ELSE t

\* df_cleaned of FillMissingValues.handle when the call stops, as far as it
\* was written in place
WorkingTable_fill(t, method, build) ==
    IF method \in {"mean", "median"} THEN FillNumeric(t, method)
    ELSE IF method = "mode" /\ build # "pandas_3" THEN FillModeFrom(t, t, 1)
    ELSE t

\* the caller's table after a call that wrote working into the object obj
CallerTable(t, obj, working) == IF obj = Caller THEN working ELSE t

(***************************************************************************)
(* Inputs of the missing-value operations.                                 *)
(***************************************************************************)
NumCells == {NaN, Num(1), Num(3)}
TextCells == {NaN, Str("a"), Str("b")}
CellsOf(kind) == IF kind = "num" THEN NumCells ELSE TextCells

CleanSchemas ==
    {[cols |-> <<"x", "t">>, kinds |-> <<"num", "text">>],
     [cols |-> <<"t">>, kinds |-> <<"text">>]}

RowsOf(schema) ==
    {r \in [1..Len(schema.cols) -> NumCells \cup TextCells] :
        \A j \in 1..Len(schema.cols) : r[j] \in CellsOf(schema.kinds[j])}

\* t is a table of one of the schemas with at most MaxRows rows and the
\* default row labels
CleanInput(t) ==
    \E schema \in CleanSchemas, n \in 0..MaxRows :
       \E rs \in [1..n -> RowsOf(schema)] :
          t = [cols |-> schema.cols, kinds |-> schema.kinds,
               index |-> [i \in 1..n |-> i - 1], rows |-> rs]

Methods == {"mean", "median", "mode", "constant", "drop", "foo"}
FillMethods == {"mean", "median", "mode", "constant", "foo"}
FillValues == {NoValue, Str("z")}
Threshes == {NoThresh} \cup 0..MaxThresh
\* (save, name) as callers pass them
SaveArgs == {<<FALSE, "">>, <<TRUE, "">>, <<TRUE, "out">>}

(***************************************************************************)
(* Actions of the missing-value operations.                                *)
(***************************************************************************)
\* CleanHandler.clean_missing_values(df, method, fill_value, axis, thresh, save, name)
CleanMissingValues(method, fill_value, axis, thresh, save, name) ==
    /\ pc = "ready"
    /\ \E build \in Builds :
          /\ Return([NoCall EXCEPT !.op = "clean_missing_values", !.method = method,
                                   !.fill_value = fill_value, !.axis = axis,
                                   !.thresh = thresh, !.save = save, !.name = name],
                    clean_missing_values(df, method, fill_value, axis, thresh, save, name, build))
          /\ logged' = logged \o Reported(df, method, axis, thresh, build)
    /\ df' = CallerTable(df, CopyObject(Caller), WorkingTable_clean(df, method))
    /\ UNCHANGED <<strategy, rawdir, fslog, archive, prev>>

\* FillMissingValues(method, fill_value).handle(df)
FillHandle(method, fill_value) ==
    /\ pc = "ready"
    /\ \E build \in Builds :
          /\ Return([NoCall EXCEPT !.op = "FillMissingValues.handle", !.method = method,
                                   !.fill_value = fill_value],
                    FillMissingValues_handle(df, method, fill_value, build))
          /\ df' = CallerTable(df, CopyObject(Caller), WorkingTable_fill(df, method, build))
    /\ UNCHANGED <<strategy, rawdir, fslog, archive, logged, prev>>

\* DropMissingValues(axis, thresh).handle(df)
DropHandle(axis, thresh) ==
    /\ pc = "ready"
    /\ \E build \in Builds :
          Return([NoCall EXCEPT !.op = "DropMissingValues.handle", !.method = "drop",
                                !.axis = axis, !.thresh = thresh],
                 DropMissingValues_handle(df, axis, thresh, build))
    /\ UNCHANGED <<df, strategy, rawdir, fslog, archive, logged, prev>>

InitClean ==
    /\ CleanInput(df)
    /\ strategy = NoStrategy
    /\ call = NoCall
    /\ ret = NoRet
    /\ files = {}
    /\ rawdir = {}
    /\ fslog = <<>>
    /\ logged = <<>>
    /\ prev = NoPrev
    /\ archive = NoArchive
    /\ pc = "ready"

NextClean ==
    \/ \E method \in Methods \ {"constant", "drop"}, sn \in SaveArgs :
          CleanMissingValues(method, NoValue, 0, NoThresh, sn[1], sn[2])
    \/ \E fill_value \in FillValues, sn \in SaveArgs :
          CleanMissingValues("constant", fill_value, 0, NoThresh, sn[1], sn[2])
    \/ \E axis \in {0, 1}, thresh \in Threshes, sn \in SaveArgs :
          CleanMissingValues("drop", NoValue, axis, thresh, sn[1], sn[2])
    \/ \E method \in FillMethods \ {"constant"} : FillHandle(method, NoValue)
    \/ \E fill_value \in FillValues : FillHandle("constant", fill_value)
    \/ \E axis \in {0, 1}, thresh \in Threshes : DropHandle(axis, thresh)

SpecClean == InitClean /\ [][NextClean]_vars

(***************************************************************************)
(* MissingValueHandler: one active strategy, set at construction and by    *)
(* set_strategy.  The object takes calls one after the other, in any       *)
(* number and order, each handle_missing_values on the caller's table.     *)
(***************************************************************************)
MaxHandlerRows == 1

Strategies ==
    {FillStrategy(method, NoValue) : method \in FillMethods \ {"constant"}}
    \cup {FillStrategy("constant", fill_value) : fill_value \in FillValues}
    \cup {DropStrategy(axis, thresh) : axis \in {0, 1}, thresh \in Threshes}

\* MissingValueHandler.set_strategy(strategy)
SetStrategy(s) ==
    /\ strategy' = set_strategy(strategy, s)
    /\ Return([NoCall EXCEPT !.op = "set_strategy", !.strategy = s],
              Outcome("ok", NoTable, {}))
    /\ UNCHANGED <<df, rawdir, fslog, archive, logged, prev>>

\* MissingValueHandler.handle_missing_values(df, save, name)
HandleMissingValues(save, name) ==
    /\ \E build \in Builds :
          Return([NoCall EXCEPT !.op = "handle_missing_values",
                                !.method = strategy.method,
                                !.fill_value = strategy.fill_value,
                                !.axis = strategy.axis, !.thresh = strategy.thresh,
                                !.save = save, !.name = name],
                 handle_missing_values(strategy, df, save, name, build))
    /\ UNCHANGED <<df, strategy, rawdir, fslog, archive, logged, prev>>

\* MissingValueHandler(strategy) was constructed
InitHandler ==
    /\ CleanInput(df) /\ NRows(df) <= MaxHandlerRows
    /\ strategy \in Strategies
    /\ call = NoCall
    /\ ret = NoRet
    /\ files = {}
    /\ rawdir = {}
    /\ fslog = <<>>
    /\ logged = <<>>
    /\ prev = NoPrev
    /\ archive = NoArchive
    /\ pc = "ready"

NextHandler ==
    \/ \E s \in Strategies : SetStrategy(s)
    \/ \E sn \in SaveArgs : HandleMissingValues(sn[1], sn[2])

SpecHandler == InitHandler /\ [][NextHandler]_vars

(***************************************************************************)
(* Feature selection: select_features.py and CleanHandler.select_features. *)
(***************************************************************************)
MaxSelRows == 2
MaxFeatures == 2

Range(seq) == {seq[k] : k \in 1..Len(seq)}

\* position of the column labelled name
ColumnOf(t, name) == CHOOSE j \in 1..NCols(t) : t.cols[j] = name

\* the positions of the columns labelled name, ascending
ColumnsOf(t, name) == Pick([j \in 1..NCols(t) |-> j], {j \in 1..NCols(t) : t.cols[j] = name}, 1)

\* mutant: the columns are taken in the order of the table, not of the list
Positions_tableOrder(t, features) ==
    Pick([j \in 1..NCols(t) |-> j], {j \in 1..NCols(t) : t.cols[j] \in Range(features)}, 1)

RECURSIVE Positions(_, _)
\* the positions df[features] takes: for each label of the list in turn, every
\* column that bears it (one when the labels of df are distinct)
Positions(t, features) ==
    IF features = <<>> THEN <<>>
    ELSE ColumnsOf(t, Head(features)) \o Positions(t, Tail(features))

\* df[features].copy() when every label of features is a column of df
Project(t, features) ==
    LET ps == Positions(t, features)
    IN  [cols |-> [k \in 1..Len(ps) |-> t.cols[ps[k]]],
         kinds |-> [k \in 1..Len(ps) |-> t.kinds[ps[k]]],
         index |-> t.index,
         rows |-> [i \in 1..NRows(t) |-> [k \in 1..Len(ps) |-> t.rows[i][ps[k]]]]]

\* mutant: labels that are no column of df are skipped
IndexColumns_skipsAbsent(t, features) ==
    LET found == SelectSeq(features, LAMBDA f : f \in Range(t.cols))
    IN  Outcome("ok", Project(t, found), {})

\* df[features].copy(): KeyError when a label is no column of df
IndexColumns(t, features) ==
    IF \E k \in 1..Len(features) : features[k] \notin Range(t.cols)
    THEN Raise("KeyError")
    ELSE Outcome("ok", Project(t, features), {})

\* SelectFeatures.select(df, features)
SelectFeatures_select(t, features) == IndexColumns(t, features)

\* CleanHandler.select_features(df, features, save, name)
select_features(t, features, save, name) ==
    LET df_selected == IndexColumns(t, features)
    IN  IF df_selected.status # "ok" THEN df_selected
        ELSE IF save
        THEN IF name = "" THEN Raise("ValueError")
             ELSE save_data(name, df_selected.table)
        ELSE df_selected

\* FeatureSelectionHandler.execute_selection(df, features, save, name)
execute_selection(t, features, save, name) ==
    LET features_selected == SelectFeatures_select(t, features)
    IN  IF features_selected.status # "ok" THEN features_selected
        ELSE IF save
        THEN IF name = "" THEN Raise("ValueError")
             ELSE Outcome("ok", features_selected.table,
                          {CsvFile("../data/interm", name, features_selected.table)})
        ELSE features_selected

SelectSchema == [cols |-> <<"a", "b", "c">>, kinds |-> <<"num", "text", "num">>]

SelectRowsOf ==
    {r \in [1..3 -> {NaN, Num(1), Str("a")}] :
        \A j \in 1..3 : r[j] \in (IF SelectSchema.kinds[j] = "num"
                                  THEN {NaN, Num(1)} ELSE {NaN, Str("a")})}

\* t is a table of the schema with at most MaxSelRows rows
SelectInput(t) ==
    \E n \in 0..MaxSelRows :
       \E rs \in [1..n -> SelectRowsOf] :
          t = [cols |-> SelectSchema.cols, kinds |-> SelectSchema.kinds,
               index |-> [i \in 1..n |-> i - 1], rows |-> rs]

\* the column lists callers pass: labels of the table and a label it lacks
FeatureLists == UNION {[1..n -> {"a", "b", "c", "z"}] : n \in 0..MaxFeatures}

Select(features) ==
    /\ pc = "ready"
    /\ Return([NoCall EXCEPT !.op = "SelectFeatures.select", !.features = features],
              SelectFeatures_select(df, features))
    /\ UNCHANGED <<df, strategy, rawdir, fslog, archive, logged, prev>>

SelectFeaturesCall(features, save, name) ==
    /\ pc = "ready"
    /\ Return([NoCall EXCEPT !.op = "select_features", !.features = features,
                             !.save = save, !.name = name],
              select_features(df, features, save, name))
    /\ UNCHANGED <<df, strategy, rawdir, fslog, archive, logged, prev>>

ExecuteSelection(features, save, name) ==
    /\ pc = "ready"
    /\ Return([NoCall EXCEPT !.op = "execute_selection", !.features = features,
                             !.save = save, !.name = name],
              execute_selection(df, features, save, name))
    /\ UNCHANGED <<df, strategy, rawdir, fslog, archive, logged, prev>>

InitSelect ==
    /\ SelectInput(df)
    /\ strategy = [NoStrategy EXCEPT !.cls = "SelectFeatures"]
    /\ call = NoCall
    /\ ret = NoRet
    /\ files = {}
    /\ rawdir = {}
    /\ fslog = <<>>
    /\ logged = <<>>
    /\ prev = NoPrev
    /\ archive = NoArchive
    /\ pc = "ready"

NextSelect ==
    \/ \E features \in FeatureLists : Select(features)
    \/ \E features \in FeatureLists, sn \in SaveArgs :
          SelectFeaturesCall(features, sn[1], sn[2])
    \/ \E features \in FeatureLists, sn \in SaveArgs :
          ExecuteSelection(features, sn[1], sn[2])

SpecSelect == InitSelect /\ [][NextSelect]_vars

(***************************************************************************)
(* Selecting twice: the second selection is made on the table the first    *)
(* one returned.                                                           *)
(***************************************************************************)
MaxReselRows == 1

\* the entry point of the call before, called again on the table it returned
Reselect(features) ==
    /\ pc = "done"
    /\ prev = NoPrev
    /\ ret.status = "ok"
    /\ call.op \in {"SelectFeatures.select", "select_features"}
    /\ prev' = [call |-> call, ret |-> ret]
    /\ Return([NoCall EXCEPT !.op = call.op, !.features = features],
              IF call.op = "select_features"
              THEN select_features(ret.table, features, FALSE, "")
              ELSE SelectFeatures_select(ret.table, features))
    /\ UNCHANGED <<df, strategy, rawdir, fslog, archive, logged>>

InitReselect == InitSelect /\ NRows(df) <= MaxReselRows

NextReselect ==
    \/ \E features \in FeatureLists : Select(features)
    \/ \E features \in FeatureLists : SelectFeaturesCall(features, FALSE, "")
    \/ \E features \in FeatureLists : Reselect(features)

SpecReselect == InitReselect /\ [][NextReselect]_vars

(***************************************************************************)
(* clean_dataset.py: the row filters, the column dropper and the pipeline. *)
(***************************************************************************)
MaxFilterRows == 3

\* element-wise "> 0": False for a missing cell
GreaterThanZero(c) == c.t = "num" /\ c.n > 0

\* mutant: the rows kept retain their labels
ResetIndex_keepsLabels(t) == t

\* reset_index(drop=True): the row labels become 0..n-1
ResetIndex(t) ==
    [cols |-> t.cols, kinds |-> t.kinds,
     index |-> [i \in 1..NRows(t) |-> i - 1], rows |-> t.rows]

\* dataframe[(dataframe[a] > 0) & (dataframe[b] > 0)].reset_index(drop=True).copy()
FilterPositive(t, a, b) ==
    IF a \notin Range(t.cols) \/ b \notin Range(t.cols)
    THEN Raise("KeyError")
    ELSE Outcome("ok",
                 Copy(ResetIndex(TakeRows(t,
                     {i \in 1..NRows(t) :
                         /\ GreaterThanZero(t.rows[i][ColumnOf(t, a)])
                         /\ GreaterThanZero(t.rows[i][ColumnOf(t, b)])}))),
                 {})

rvote_average(t) == FilterPositive(t, "vote_average", "vote_count")

\* mutant: keeps a row when either value is positive
rbudget_revenue_either(t) ==
    IF "budget" \notin Range(t.cols) \/ "revenue" \notin Range(t.cols)
    THEN Raise("KeyError")
    ELSE Outcome("ok",
                 ResetIndex(TakeRows(t,
                     {i \in 1..NRows(t) :
                         \/ GreaterThanZero(t.rows[i][ColumnOf(t, "budget")])
                         \/ GreaterThanZero(t.rows[i][ColumnOf(t, "revenue")])})),
                 {})

rbudget_revenue(t) == FilterPositive(t, "budget", "revenue")

columns_to_drop ==
    <<"backdrop_path", "keywords", "tagline", "imdb_id", "original_title",
      "poster_path", "spoken_languages", "homepage", "status">>

\* dataframe.drop(columns=columns_to_drop): KeyError when one is absent
drop_columns(t) ==
    IF \E k \in 1..Len(columns_to_drop) : columns_to_drop[k] \notin Range(t.cols)
    THEN Raise("KeyError")
    ELSE Outcome("ok",
                 TakeColumns(t, {j \in 1..NCols(t) : t.cols[j] \notin Range(columns_to_drop)}),
                 {})

\* the row filter: rbudget_revenue(rvote_average(df)); an exception propagates
row_filter(t) ==
    LET voted == rvote_average(t)
    IN  IF voted.status # "ok" THEN voted ELSE rbudget_revenue(voted.table)

\* lines 67-69: rbudget_revenue(drop_columns(rvote_average(original_df))), then
\* to_csv("./data/interm/cleaned_df.csv", index=False)
main(t) ==
    LET voted == rvote_average(t)
        dropped == IF voted.status # "ok" THEN voted ELSE drop_columns(voted.table)
        cleaned_df == IF dropped.status # "ok" THEN dropped
                      ELSE rbudget_revenue(dropped.table)
    IN  IF cleaned_df.status # "ok" THEN cleaned_df
        ELSE Outcome("ok", cleaned_df.table,
                     {CsvFile("data/interm", "cleaned_df", cleaned_df.table)})

FilterCols == <<"vote_average", "vote_count", "budget", "revenue">>

\* rows over FilterCols: the scenario's rows, one row per single failing
\* column, a missing value and a negative value
FilterRows ==
    {<<Num(0), Num(0), Num(100), Num(200)>>,
     <<Num(5), Num(10), Num(0), Num(0)>>,
     <<Num(7), Num(20), Num(500), Num(900)>>,
     <<Num(5), Num(10), Num(100), Num(200)>>,
     <<Num(0), Num(10), Num(100), Num(200)>>,
     <<Num(5), Num(0), Num(100), Num(200)>>,
     <<Num(5), Num(10), Num(0), Num(200)>>,
     <<Num(5), Num(10), Num(100), Num(0)>>,
     <<NaN, Num(10), Num(100), Num(200)>>,
     <<Num(5), Num(10), Num(-1), Num(200)>>}

FilterSchemas ==
    {FilterCols, FilterCols \o columns_to_drop, <<"vote_average", "vote_count">>}

\* the row r of FilterRows laid out over the columns cols
RowOver(cols, r) ==
    [j \in 1..Len(cols) |->
        IF cols[j] \in Range(FilterCols)
        THEN r[CHOOSE k \in 1..4 : FilterCols[k] = cols[j]]
        ELSE Str("a")]

\* the row labels of the inputs start at 0 (a table as read) or elsewhere
IndexBases == {0, 10}

\* t is a table of one of the schemas with at most MaxFilterRows rows
FilterInput(t) ==
    \E cols \in FilterSchemas, n \in 0..MaxFilterRows, base \in IndexBases :
       \E rs \in [1..n -> {RowOver(cols, r) : r \in FilterRows}] :
          t = [cols |-> cols,
               kinds |-> [j \in 1..Len(cols) |->
                            IF cols[j] \in Range(FilterCols) THEN "num" ELSE "text"],
               index |-> [i \in 1..n |-> base + i - 1],
               rows |-> rs]

RvoteAverage ==
    /\ pc = "ready"
    /\ Return([NoCall EXCEPT !.op = "rvote_average"], rvote_average(df))
    /\ UNCHANGED <<df, strategy, rawdir, fslog, archive, logged, prev>>

RbudgetRevenue ==
    /\ pc = "ready"
    /\ Return([NoCall EXCEPT !.op = "rbudget_revenue"], rbudget_revenue(df))
    /\ UNCHANGED <<df, strategy, rawdir, fslog, archive, logged, prev>>

DropColumns ==
    /\ pc = "ready"
    /\ Return([NoCall EXCEPT !.op = "drop_columns"], drop_columns(df))
    /\ UNCHANGED <<df, strategy, rawdir, fslog, archive, logged, prev>>

RowFilter ==
    /\ pc = "ready"
    /\ Return([NoCall EXCEPT !.op = "row_filter"], row_filter(df))
    /\ UNCHANGED <<df, strategy, rawdir, fslog, archive, logged, prev>>

\* the script: original_df comes from read_csv, so its row labels are 0..n-1
Main ==
    /\ pc = "ready"
    /\ df.index = [i \in 1..NRows(df) |-> i - 1]
    /\ Return([NoCall EXCEPT !.op = "main"], main(df))
    /\ UNCHANGED <<df, strategy, rawdir, fslog, archive, logged, prev>>

InitFilter ==
    /\ FilterInput(df)
    /\ strategy = NoStrategy
    /\ call = NoCall
    /\ ret = NoRet
    /\ files = {}
    /\ rawdir = {}
    /\ fslog = <<>>
    /\ logged = <<>>
    /\ prev = NoPrev
    /\ archive = NoArchive
    /\ pc = "ready"

NextFilter ==
    \/ RvoteAverage
    \/ RbudgetRevenue
    \/ DropColumns
    \/ RowFilter
    \/ Main

SpecFilter == InitFilter /\ [][NextFilter]_vars

(***************************************************************************)
(* Filtering twice: the second filter is applied to the table the first    *)
(* one returned.                                                           *)
(***************************************************************************)
\* the filter named op applied to t
FilterOf(op, t) ==
    IF op = "rvote_average" THEN rvote_average(t)
    ELSE IF op = "rbudget_revenue" THEN rbudget_revenue(t)
    ELSE row_filter(t)

\* the filter of the call before, applied again to the table it returned
Refilter ==
    /\ pc = "done"
    /\ prev = NoPrev
    /\ ret.status = "ok"
    /\ call.op \in {"rvote_average", "rbudget_revenue", "row_filter"}
    /\ prev' = [call |-> call, ret |-> ret]
    /\ Return([NoCall EXCEPT !.op = call.op], FilterOf(call.op, ret.table))
    /\ UNCHANGED <<df, strategy, rawdir, fslog, archive, logged>>

NextRefilter ==
    \/ RvoteAverage
    \/ RbudgetRevenue
    \/ RowFilter
    \/ Refilter

SpecRefilter == InitFilter /\ [][NextRefilter]_vars

(***************************************************************************)
(* Every transform, each on the tables of its own component.               *)
(***************************************************************************)
MaxTransformRows == 2

InitTransforms ==
    /\ InitClean \/ InitSelect \/ InitFilter
    /\ NRows(df) <= MaxTransformRows

NextTransforms ==
    \/ df.cols \in {schema.cols : schema \in CleanSchemas} /\ NextClean
    \/ df.cols = SelectSchema.cols /\ NextSelect
    \/ df.cols \in FilterSchemas /\ NextFilter

SpecTransforms == InitTransforms /\ [][NextTransforms]_vars

(***************************************************************************)
(* ingest_data.py: ZipDataIngestor.ingest.  Paths and file names are       *)
(* sequences of characters.                                                *)
(***************************************************************************)
\* str.endswith(suffix)
EndsWith(str, suffix) ==
    /\ Len(str) >= Len(suffix)
    /\ SubSeq(str, Len(str) - Len(suffix) + 1, Len(str)) = suffix

ZipSuffix == <<".", "z", "i", "p">>
CsvSuffix == <<".", "c", "s", "v">>

\* what ingest did: the status and the table returned, ../data/raw afterwards
\* and the filesystem operations performed, in order
IngestOutcome(status, table, dir, log) ==
    [status |-> status, table |-> table, dir |-> dir, log |-> log]

\* zip_ref.extractall("../data/raw"): each entry written, replacing a file of
\* the same name
ExtractAll(dir, entries) ==
    {f \in dir : f.name \notin entries} \cup {[name |-> e, content |-> "zip"] : e \in entries}

\* mutant: only the entries of the archive are searched for a CSV file
ExtractAndLoad_archiveOnly(arch, dir) ==
    LET extracted == ExtractAll(dir, arch.entries)
        csv_files == {f \in extracted : EndsWith(f.name, CsvSuffix) /\ f.name \in arch.entries}
    IN  IF csv_files = {}
        THEN {IngestOutcome("FileNotFoundError", NoTable, extracted,
                            <<"open", "extractall", "listdir">>)}
        ELSE {IngestOutcome("ok", [file |-> f.name, content |-> f.content], extracted,
                            <<"open", "extractall", "listdir", "read_csv">>) :
                 f \in csv_files}

\* lines 46-55 for an archive that opened: extract, list, pick, load.  The
\* listing order of os.listdir is arbitrary, so any CSV file can come first.
ExtractAndLoad(arch, dir) ==
    LET extracted == ExtractAll(dir, arch.entries)
        csv_files == {f \in extracted : EndsWith(f.name, CsvSuffix)}
    IN  IF csv_files = {}
        THEN {IngestOutcome("FileNotFoundError", NoTable, extracted,
                            <<"open", "extractall", "listdir">>)}
        ELSE {IngestOutcome("ok", [file |-> f.name, content |-> f.content], extracted,
                            <<"open", "extractall", "listdir", "read_csv">>) :
                 f \in csv_files}

\* zipfile.ZipFile(file_path, "r") and what follows
OpenAndLoad(arch, dir) ==
    IF arch.kind = "missing"
    THEN {IngestOutcome("FileNotFoundError", NoTable, dir, <<"open">>)}
    ELSE IF arch.kind = "notzip"
    THEN {IngestOutcome("BadZipFile", NoTable, dir, <<"open">>)}
    ELSE ExtractAndLoad(arch, dir)

\* mutant: the extension is checked after the archive was extracted
ingest_checksLate(file_path, arch, dir) ==
    IF ~EndsWith(file_path, ZipSuffix)
    THEN {IngestOutcome("ValueError", NoTable, o.dir, o.log) : o \in OpenAndLoad(arch, dir)}
    ELSE OpenAndLoad(arch, dir)

\* ZipDataIngestor.ingest(file_path): the outcomes possible
ingest(file_path, arch, dir) ==
    IF ~EndsWith(file_path, ZipSuffix)
    THEN {IngestOutcome("ValueError", NoTable, dir, <<>>)}
    ELSE OpenAndLoad(arch, dir)

IngestPaths ==
    {<<"d", ".", "z", "i", "p">>, <<"d", ".", "c", "s", "v">>, <<"z", "i", "p">>,
     <<"d", ".", "z", "i", "p", ".", "x">>, <<".", "z", "i", "p">>, << >>}

RawNames ==
    {<<"m", ".", "c", "s", "v">>, <<"n", ".", "c", "s", "v">>, <<"r", ".", "t", "x", "t">>}

Archives ==
    {[kind |-> "missing", entries |-> {}], [kind |-> "notzip", entries |-> {}]}
    \cup {[kind |-> "zip", entries |-> es] : es \in SUBSET RawNames}

Ingest(file_path) ==
    /\ pc = "ready"
    /\ \E out \in ingest(file_path, archive, rawdir) :
          /\ call' = [NoCall EXCEPT !.op = "ingest", !.path = file_path]
          /\ ret' = [status |-> out.status, table |-> out.table]
          /\ rawdir' = out.dir
          /\ fslog' = fslog \o out.log
          /\ pc' = "done"
    /\ UNCHANGED <<df, strategy, files, archive, logged, prev>>

InitIngest ==
    /\ df = NoTable
    /\ strategy = NoStrategy
    /\ call = NoCall
    /\ ret = NoRet
    /\ files = {}
    /\ rawdir \in SUBSET {[name |-> nm, content |-> "old"] : nm \in RawNames}
    /\ fslog = <<>>
    /\ logged = <<>>
    /\ prev = NoPrev
    /\ archive \in Archives
    /\ pc = "ready"

NextIngest == \E file_path \in IngestPaths : Ingest(file_path)

SpecIngest == InitIngest /\ [][NextIngest]_vars

(***************************************************************************)
(* Properties of the missing-value operations (SpecClean).                 *)
(***************************************************************************)
Returned(op) == pc = "done" /\ call.op = op /\ ret.status = "ok"

\* an imputation call (any policy but drop) was made
Imputing ==
    /\ pc = "done"
    /\ call.op \in {"clean_missing_values", "FillMissingValues.handle"}
    /\ call.method # "drop"

HasMissing(t) == \E i \in 1..NRows(t), j \in 1..NCols(t) : IsNa(t.rows[i][j])

\* the call was given what the policy and the save step need: a fill value
\* for constant, a name when saving
WellFormedCall ==
    /\ ~(call.method = "constant" /\ call.fill_value = NoValue)
    /\ ~(call.save /\ call.name = "")

\* C1 as stated: applying any imputation policy but drop to any table yields
\* a table with the row count and the columns of the input.
C1_ImputationYieldsSameShape ==
    (Imputing /\ WellFormedCall) =>
        /\ ret.status = "ok"
        /\ NRows(ret.table) = NRows(df)
        /\ ret.table.cols = df.cols

\* C1, for the calls that return: the table returned has the row count and
\* the columns of the input.
C1_ShapeKeptWhenReturned ==
    (Imputing /\ ret.status = "ok") =>
        /\ NRows(ret.table) = NRows(df)
        /\ ret.table.cols = df.cols
        /\ \A i \in 1..NRows(ret.table) : Len(ret.table.rows[i]) = NCols(df)

\* a mean or median imputation was called, with a name when saving
MeanMedianDone ==
    /\ Imputing /\ ~(call.save /\ call.name = "")
    /\ call.method \in {"mean", "median"}

PresentAt(t, j) == {i \in 1..NRows(t) : NotNa(t.rows[i][j])}

RECURSIVE SumAt(_, _, _)
\* the sum of the (integer) cells of column j at the positions in is
SumAt(t, j, is) ==
    IF is = {} THEN 0
    ELSE LET i == CHOOSE k \in is : TRUE
         IN  t.rows[i][j].n + SumAt(t, j, is \ {i})

\* c is the mean of the present cells of column j of t
IsMeanOf(c, t, j) ==
    /\ c.t = "num" /\ c.d > 0
    /\ Gcd(Abs(c.n), c.d) = 1
    /\ c.n * Cardinality(PresentAt(t, j)) = c.d * SumAt(t, j, PresentAt(t, j))

\* v is the r-th smallest of the present cells of column j of t
IsRthSmallest(v, r, t, j) ==
    /\ \E i \in PresentAt(t, j) : t.rows[i][j].n = v
    /\ Cardinality({i \in PresentAt(t, j) : t.rows[i][j].n < v}) < r
    /\ Cardinality({i \in PresentAt(t, j) : t.rows[i][j].n <= v}) >= r

\* c is the median of the present cells of column j of t
IsMedianOf(c, t, j) ==
    LET k == Cardinality(PresentAt(t, j))
        vals == {t.rows[i][j].n : i \in PresentAt(t, j)}
    IN  /\ c.t = "num" /\ c.d > 0
        /\ Gcd(Abs(c.n), c.d) = 1
        /\ IF k % 2 = 1
           THEN c.d = 1 /\ IsRthSmallest(c.n, (k + 1) \div 2, t, j)
           ELSE \E lo \in vals, hi \in vals :
                   /\ IsRthSmallest(lo, k \div 2, t, j)
                   /\ IsRthSmallest(hi, k \div 2 + 1, t, j)
                   /\ 2 * c.n = c.d * (lo + hi)

IsFillOf(c, t, j) ==
    IF call.method = "mean" THEN IsMeanOf(c, t, j) ELSE IsMedianOf(c, t, j)

\* C2 as stated: after mean or median imputation no numeric column holds a
\* missing value.
C2_NoMissingNumericLeft ==
    MeanMedianDone =>
        /\ ret.status = "ok"
        /\ \A j \in NumericColumns(df), i \in 1..NRows(df) : NotNa(ret.table.rows[i][j])

\* C2, amended: after mean or median imputation every present cell keeps its
\* value; in a numeric column with at least one present cell each missing cell
\* holds the mean (median) of the present cells, so none is missing; a numeric
\* column with no present cell stays all missing; the other columns are unchanged.
C2_MeanMedianFillsNumeric ==
    MeanMedianDone =>
        /\ ret.status = "ok"
        /\ NRows(ret.table) = NRows(df) /\ ret.table.cols = df.cols
        /\ \A i \in 1..NRows(df), j \in 1..NCols(df) :
              LET old == df.rows[i][j]
                  new == ret.table.rows[i][j]
              IN  IF NotNa(old) \/ j \notin NumericColumns(df) THEN new = old
                  ELSE IF PresentAt(df, j) = {} THEN IsNa(new)
                  ELSE IsFillOf(new, df, j)

\* the scenario: column [1, missing, 3] under mean becomes [1, 2, 3]
C2_Witness ==
    /\ MeanMedianDone /\ call.method = "mean"
    /\ NRows(df) = 3 /\ df.kinds[1] = "num"
    /\ Column(df, 1) = <<Num(1), NaN, Num(3)>>
    /\ Column(ret.table, 1) = <<Num(1), Num(2), Num(3)>>
    /\ Column(ret.table, 2) = Column(df, 2)

\* a constant imputation with a fill value was called
ConstantCalled ==
    /\ Imputing
    /\ call.method = "constant" /\ call.fill_value # NoValue

\* C3: constant imputation with a fill value v returns a table in which every
\* cell missing in the input holds v and every other cell its input value; it
\* raises only when saving is requested without a name.
C3_ConstantFillsMissing ==
    ConstantCalled =>
        IF call.save /\ call.name = "" THEN ret.status = "ValueError"
        ELSE /\ ret.status = "ok"
             /\ NRows(ret.table) = NRows(df) /\ ret.table.cols = df.cols
             /\ \A i \in 1..NRows(df), j \in 1..NCols(df) :
                   ret.table.rows[i][j] =
                      IF IsNa(df.rows[i][j]) THEN call.fill_value ELSE df.rows[i][j]

C3_Witness ==
    /\ ConstantCalled /\ ret.status = "ok"
    /\ NRows(df) = 2 /\ NCols(df) = 2
    /\ df.rows[1] = <<NaN, Str("a")>> /\ df.rows[2] = <<Num(3), NaN>>
    /\ ret.table.rows = <<<<Str("z"), Str("a")>>, <<Num(3), Str("z")>>>>

\* a row drop with a threshold returned a table
DropRowsDone ==
    /\ pc = "done" /\ ret.status = "ok"
    /\ call.op \in {"clean_missing_values", "DropMissingValues.handle"}
    /\ call.method = "drop" /\ call.axis = 0 /\ call.thresh # NoThresh

\* positions of the rows of t with at least k present cells
RowsWithAtLeast(t, k) ==
    {i \in 1..NRows(t) : Cardinality({j \in 1..NCols(t) : t.rows[i][j].t # "nan"}) >= k}

\* C4: drop with axis=0 and thresh=k keeps exactly the rows with at least k
\* present cells, with their labels and cells, in their original order.
C4_DropRowsByThresh ==
    DropRowsDone =>
        LET out == ret.table
            kept == RowsWithAtLeast(df, call.thresh)
        IN  /\ out.cols = df.cols
            /\ Len(out.index) = NRows(out)
            /\ NRows(out) = Cardinality(kept)
            /\ \A i \in 1..NRows(df) :
                  (i \in kept) <=> (\E m \in 1..NRows(out) : out.index[m] = df.index[i])
            /\ \A m \in 1..NRows(out) :
                  \E i \in kept : out.index[m] = df.index[i] /\ out.rows[m] = df.rows[i]
            /\ \A m \in 1..NRows(out), q \in 1..NRows(out) :
                  m < q => out.index[m] < out.index[q]

\* a middle row is removed and the rows around it stay, in order
C4_Witness ==
    /\ DropRowsDone /\ call.thresh = 2
    /\ NRows(df) = 3
    /\ RowsWithAtLeast(df, 2) = {1, 3}
    /\ ret.table.index = <<0, 2>>
    /\ ret.table.rows = <<df.rows[1], df.rows[3]>>

\* C7 as stated: a call that asks to save under an empty name fails and writes
\* no file, whatever the method; one that asks to save under a name and
\* returns has written the table it returns to the file of that name.
C7_SaveWithoutNameFails ==
    /\ (pc = "done" /\ call.save /\ call.name = "") =>
          (ret.status # "ok" /\ files = {})
    /\ (pc = "done" /\ call.save /\ call.name # "" /\ ret.status = "ok") =>
          \E f \in files :
             f.name = call.name /\ f.cols = ret.table.cols /\ f.rows = ret.table.rows

C10_ConstantWithoutValueFails ==
    (Imputing /\ call.method = "constant" /\ call.fill_value = NoValue) =>
        (ret.status = "ValueError" /\ ret.table = NoTable)

(***************************************************************************)
(* Properties of feature selection (SpecSelect).                           *)
(***************************************************************************)
Selecting ==
    /\ pc = "done"
    /\ call.op \in {"SelectFeatures.select", "select_features", "execute_selection"}

AllRequestedPresent ==
    \A k \in 1..Len(call.features) : \E j \in 1..NCols(df) : df.cols[j] = call.features[k]

C5_WitnessReordered ==
    /\ Selecting /\ call.features = <<"c", "a">>
    /\ ret.status = "ok"
    /\ NRows(df) = 2
    /\ df.rows[1] = <<Num(1), Str("a"), NaN>>
    /\ ret.table.rows[1] = <<NaN, Num(1)>>

(***************************************************************************)
(* Properties of the row filter (SpecFilter).                              *)
(***************************************************************************)
\* the row filter ran, as the composition of the two filters or in the script,
\* on a table that has the columns it reads (and, in the script, the columns
\* the script drops)
RowFiltered ==
    /\ pc = "done" /\ call.op \in {"row_filter", "main"}
    /\ \A name \in {"vote_average", "vote_count", "budget", "revenue"} :
          \E j \in 1..Len(df.cols) : df.cols[j] = name
    /\ call.op = "main" => Len(df.cols) = 13

\* the cell of row i of t in the column labelled name
CellAt(t, i, name) == t.rows[i][CHOOSE j \in 1..Len(t.cols) : t.cols[j] = name]

\* the validity predicate of a row
ValidRow(t, i) ==
    \A name \in {"vote_average", "vote_count", "budget", "revenue"} :
        CellAt(t, i, name).t = "num" /\ CellAt(t, i, name).n > 0

\* C6: the row filter keeps exactly the rows whose vote_average, vote_count,
\* budget and revenue are all positive, in their original order, labelled
\* 0..n-1; the scenario's table keeps its third row only.
C6_RowFilterKeepsValidRows ==
    RowFiltered =>
        LET out == ret.table
            valid == {i \in 1..NRows(df) : ValidRow(df, i)}
        IN  /\ ret.status = "ok"
            /\ NRows(out) = Cardinality(valid)
            /\ out.index = [q \in 1..NRows(out) |-> q - 1]
            /\ \A name \in {"vote_average", "vote_count", "budget", "revenue"} :
                  \E k \in 1..Len(out.cols) : out.cols[k] = name
            /\ \A q \in 1..NRows(out) :
                  LET i == CHOOSE m \in valid : Cardinality({k \in valid : k < m}) = q - 1
                  IN  \A k \in 1..Len(out.cols) : out.rows[q][k] = CellAt(df, i, out.cols[k])

\* the scenario: rows (0,0,100,200), (5,10,0,0), (7,20,500,900)
C6_Witness ==
    /\ RowFiltered /\ call.op = "row_filter"
    /\ df.cols = <<"vote_average", "vote_count", "budget", "revenue">>
    /\ df.index = <<10, 11, 12>>
    /\ df.rows = <<<<Num(0), Num(0), Num(100), Num(200)>>,
                   <<Num(5), Num(10), Num(0), Num(0)>>,
                   <<Num(7), Num(20), Num(500), Num(900)>>>>
    /\ ret.table.rows = <<<<Num(7), Num(20), Num(500), Num(900)>>>>
    /\ ret.table.index = <<0>>

(***************************************************************************)
(* Properties of the ingestor (SpecIngest).                                *)
(***************************************************************************)
\* the last four characters of file_path are ".zip"
HasZipExtension(file_path) ==
    LET n == Len(file_path)
    IN  /\ n >= 4
        /\ file_path[n - 3] = "." /\ file_path[n - 2] = "z"
        /\ file_path[n - 1] = "i" /\ file_path[n] = "p"

\* C8: ingest of a path that does not end in ".zip" raises ValueError without
\* opening an archive, extracting an entry, listing a directory or writing
\* a file.
C8_NonZipRaisesBeforeFilesystem ==
    [][(pc = "ready" /\ pc' = "done" /\ call'.op = "ingest"
           /\ ~HasZipExtension(call'.path))
        => /\ ret'.status = "ValueError" /\ ret'.table = NoTable
           /\ fslog' = fslog /\ fslog' = <<>>
           /\ rawdir' = rawdir
           /\ files' = files]_vars

\* a valid archive with entries lies at a path ending in ".csv"
C8_Witness ==
    /\ pc = "done" /\ call.op = "ingest"
    /\ call.path = <<"d", ".", "c", "s", "v">>
    /\ archive.kind = "zip" /\ archive.entries # {}
    /\ ret.status = "ValueError"
    /\ fslog = <<>>

(***************************************************************************)
(* Properties of every transform (SpecTransforms).                         *)
(***************************************************************************)
\* C11: no transform changes the table it was handed: whatever step is taken,
\* on success or on error, the caller's table has the same labels, rows and
\* cells (missing ones included) afterwards as before
C11_InputTableUnchanged == [][df' = df]_vars

\* an imputation that wrote its working table in place returned a table that
\* differs from the caller's, and one that raised after it had written
C11_Witness ==
    /\ pc = "done"
    /\ call.op \in {"clean_missing_values", "FillMissingValues.handle"}
    /\ call.method = "mode"
    /\ HasMissing(df)
    /\ \/ ret.status = "ok" /\ ret.table # df
       \/ ret.status = "IndexError" /\ FillModeFrom(df, df, 1) # df

(***************************************************************************)
(* Properties of the drop policy without a threshold (SpecClean).          *)
(***************************************************************************)
\* a drop call with thresh unset was made, with well-formed save arguments
DropWithoutThresh ==
    /\ pc = "done"
    /\ call.op \in {"clean_missing_values", "DropMissingValues.handle"}
    /\ call.method = "drop"
    /\ call.thresh = NoThresh
    /\ WellFormedCall

\* the rows of t without a missing cell, the columns of t likewise
CompleteRows(t) == {i \in 1..NRows(t) : \A j \in 1..NCols(t) : NotNa(t.rows[i][j])}
CompleteColumns(t) == {j \in 1..NCols(t) : \A i \in 1..NRows(t) : NotNa(t.rows[i][j])}

\* out holds exactly the complete rows of t (axis 0) or exactly its complete
\* columns (axis 1), in their order
HoldsCompleteOnly(out, t, axis) ==
    IF axis = 0
    THEN /\ out.cols = t.cols
         /\ NRows(out) = Cardinality(CompleteRows(t))
         /\ \A k \in 1..NRows(out) :
               \E i \in CompleteRows(t) :
                  /\ Cardinality({h \in CompleteRows(t) : h < i}) = k - 1
                  /\ out.rows[k] = t.rows[i]
    ELSE /\ NRows(out) = NRows(t)
         /\ NCols(out) = Cardinality(CompleteColumns(t))
         /\ \A k \in 1..NCols(out) :
               \E j \in CompleteColumns(t) :
                  /\ Cardinality({h \in CompleteColumns(t) : h < j}) = k - 1
                  /\ out.cols[k] = t.cols[j]
                  /\ \A i \in 1..NRows(t) : out.rows[i][k] = t.rows[i][j]

\* the number of rows (axis 0) or columns (axis 1) of t that out lacks
Removed(out, t, axis) ==
    IF axis = 0 THEN NRows(t) - NRows(out) ELSE NCols(t) - NCols(out)

\* C12: a drop with thresh unset returns exactly the rows (axis 0) or the
\* columns (axis 1) that have no missing value, and clean_missing_values
\* reports the number of rows, respectively columns, it removed
C12_DropWithoutThreshKeepsComplete ==
    DropWithoutThresh =>
        /\ ret.status = "ok"
        /\ HoldsCompleteOnly(ret.table, df, call.axis)
        /\ call.op = "clean_missing_values" =>
               logged = <<Removed(ret.table, df, call.axis)>>

\* the part of C12 the code keeps on every build: the count reported for
\* axis 0 is the number of rows removed
C12_RowCountReported ==
    (DropWithoutThresh /\ call.op = "clean_missing_values" /\ call.axis = 0) =>
        logged = <<Removed(ret.table, df, 0)>>

\* the count reported for axis 1 is not the number of columns removed
C12_ColumnCountMisreported ==
    /\ DropWithoutThresh
    /\ call.op = "clean_missing_values" /\ call.axis = 1
    /\ ret.status = "ok"
    /\ HoldsCompleteOnly(ret.table, df, 1)
    /\ Removed(ret.table, df, 1) = 1
    /\ logged = <<0>>

\* a build on which thresh=None removes a row that has no missing cell
C12_CompleteRowRemoved ==
    /\ DropWithoutThresh
    /\ call.axis = 0
    /\ ret.status = "ok"
    /\ CompleteRows(df) # {}
    /\ NRows(ret.table) = 0

(***************************************************************************)
(* Properties of selecting twice (SpecReselect).                           *)
(***************************************************************************)
\* no label occurs twice in the list
Distinct(seq) == \A a, b \in 1..Len(seq) : seq[a] = seq[b] => a = b

\* a selection of the list G = prev.call.features, all of them columns of df,
\* was followed by a selection of the list F = call.features on its result,
\* every label of F being one of G
SelectedTwice ==
    /\ pc = "done"
    /\ prev # NoPrev
    /\ Range(prev.call.features) \subseteq Range(df.cols)
    /\ Range(call.features) \subseteq Range(prev.call.features)

\* out is t projected to the labels of features, in their order
IsSelectionOf(out, t, features) ==
    /\ out.cols = features
    /\ out.index = t.index
    /\ NRows(out) = NRows(t)
    /\ \A i \in 1..NRows(t) :
          /\ Len(out.rows[i]) = Len(features)
          /\ \A k \in 1..Len(features) :
                \E j \in 1..NCols(t) :
                   t.cols[j] = features[k] /\ out.rows[i][k] = t.rows[i][j]

\* C13 as stated: for lists F and G of columns of T, F contained in G (F = G
\* for idempotence), select(select(T, G), F) equals select(T, F)
C13_SelectTwiceEqualsSelectOnce ==
    SelectedTwice =>
        /\ ret.status = "ok"
        /\ IsSelectionOf(ret.table, df, call.features)

\* C13 amended: the same, for a list G without a repeated label
C13_SelectTwiceDistinctLabels ==
    (SelectedTwice /\ Distinct(prev.call.features)) =>
        /\ ret.status = "ok"
        /\ IsSelectionOf(ret.table, df, call.features)

\* a superset <<"c", "a">> then the subset <<"a">>, on a table with a row
C13_Witness ==
    /\ SelectedTwice
    /\ prev.call.features = <<"c", "a">> /\ call.features = <<"a">>
    /\ NRows(df) = 1
    /\ ret.status = "ok" /\ ret.table.cols = <<"a">>

\* the same list <<"b", "a">> twice
C13_WitnessIdempotent ==
    /\ SelectedTwice
    /\ prev.call.features = <<"b", "a">> /\ call.features = <<"b", "a">>
    /\ ret = prev.ret /\ NRows(df) = 1

(***************************************************************************)
(* Properties of filtering twice (SpecRefilter).                           *)
(***************************************************************************)
\* a filter was applied to the table its first application returned
FilteredTwice ==
    /\ pc = "done"
    /\ prev # NoPrev
    /\ call.op \in {"rvote_average", "rbudget_revenue", "row_filter"}

\* C14: a row filter applied to its own output returns the same rows in the
\* same order, under the same columns, with the row labels 0..n-1 that the
\* output already had
C14_RowFilterIdempotent ==
    FilteredTwice =>
        /\ ret.status = "ok"
        /\ ret.table.cols = prev.ret.table.cols
        /\ ret.table.rows = prev.ret.table.rows
        /\ ret.table.index = [i \in 1..Len(prev.ret.table.rows) |-> i - 1]
        /\ ret.table.index = prev.ret.table.index

\* the first application removed a row that was not the last one and kept
\* rows, on a table whose labels did not start at 0
C14_Witness ==
    /\ FilteredTwice
    /\ call.op = "row_filter"
    /\ NRows(df) = 3 /\ df.index = <<10, 11, 12>>
    /\ ~ValidRow(df, 1) /\ ValidRow(df, 2) /\ ValidRow(df, 3)
    /\ NRows(ret.table) = 2

(***************************************************************************)
(* Properties of MissingValueHandler (SpecHandler).                        *)
(***************************************************************************)
\* what handle_missing_values returns when the strategy s produced the outcome
\* produced: the strategy's exception, the rejection of an empty name, or the
\* strategy's table, the same with and without persistence
ReturnsProduced(r, produced, save, name) ==
    IF produced.status # "ok" THEN r = [status |-> produced.status, table |-> NoTable]
    ELSE IF save /\ name = "" THEN r = [status |-> "ValueError", table |-> NoTable]
    ELSE r = [status |-> "ok", table |-> produced.table]

\* C15: whatever calls were made before, set_strategy installs the strategy it
\* is given and nothing else changes the active strategy; a call of
\* handle_missing_values leaves the active strategy as it is and returns
\* exactly the table the active strategy's handle produced for the caller's
\* table, whether it was asked to persist it or not
C15_HandlerDelegatesToActiveStrategy ==
    [][/\ call'.op = "set_strategy" => strategy' = call'.strategy
       /\ strategy' # strategy => call'.op = "set_strategy"
       /\ call'.op = "handle_missing_values" =>
             /\ strategy' = strategy
             /\ \E build \in Builds :
                   ReturnsProduced(ret', StrategyHandle(strategy, df, build),
                                   call'.save, call'.name)]_vars

\* a table filled with "z" was persisted under an earlier strategy; the
\* strategy was replaced since, and the latest call, made without persistence,
\* returned what the new strategy produces: the rows without a missing cell
C15_Witness ==
    /\ pc = "done" /\ call.op = "handle_missing_values"
    /\ HasMissing(df)
    /\ strategy = DropStrategy(0, 1)
    /\ ~call.save
    /\ ret = [status |-> "ok", table |-> TakeRows(df, {})]
    /\ files = {CsvFile("../data/interm", "out", FillConstant(df, Str("z")))}

(***************************************************************************)
(* Properties of ingest on a path ending in ".zip" (SpecIngest).           *)
(***************************************************************************)
HasCsvExtension(name) ==
    LET n == Len(name)
    IN  /\ n >= 4
        /\ name[n - 3] = "." /\ name[n - 2] = "c"
        /\ name[n - 1] = "s" /\ name[n] = "v"

\* after is the directory before with every entry of the archive written
\* into it, over a file of the same name where there was one
IsExtractionOf(after, before, entries) ==
    /\ {f.name : f \in after} = {f.name : f \in before} \cup entries
    /\ \A f \in after : IF f.name \in entries THEN f.content = "zip" ELSE f \in before

\* position of the operation in the log, 0 when it is not there
PositionOf(log, operation) ==
    IF \E k \in 1..Len(log) : log[k] = operation
    THEN CHOOSE k \in 1..Len(log) : log[k] = operation
    ELSE 0

\* the step extracts the archive, then lists the directory, and raises
\* FileNotFoundError exactly when the directory holds no CSV file afterwards;
\* otherwise it loads a CSV file of the directory, whatever its origin
ExtractsThenLoadsFromDirectory ==
    /\ IsExtractionOf(rawdir', rawdir, archive.entries)
    /\ PositionOf(fslog', "extractall") > 0
    /\ PositionOf(fslog', "extractall") < PositionOf(fslog', "listdir")
    /\ ret'.status = "FileNotFoundError" <=> ~\E f \in rawdir' : HasCsvExtension(f.name)
    /\ ret'.status # "FileNotFoundError" =>
          /\ ret'.status = "ok"
          /\ PositionOf(fslog', "listdir") < PositionOf(fslog', "read_csv")
          /\ \E f \in rawdir' :
                /\ HasCsvExtension(f.name)
                /\ ret'.table = [file |-> f.name, content |-> f.content]

\* a call of ingest with a path ending in ".zip"
IngestOfZipPath ==
    pc = "ready" /\ pc' = "done" /\ call'.op = "ingest" /\ HasZipExtension(call'.path)

C16_WitnessMissingArchive ==
    /\ pc = "done" /\ call.op = "ingest" /\ HasZipExtension(call.path)
    /\ archive.kind = "missing"
    /\ \E f \in rawdir : HasCsvExtension(f.name)
    /\ ret.status = "FileNotFoundError"
    /\ fslog = <<"open">>

(***************************************************************************)
(* Properties of mode imputation (SpecClean).                              *)
(***************************************************************************)
\* a mode imputation was called, with well-formed save arguments
ModeCalled ==
    /\ pc = "done"
    /\ call.op \in {"clean_missing_values", "FillMissingValues.handle"}
    /\ call.method = "mode"
    /\ WellFormedCall

\* the number of cells of column j of t that hold the value v
Occurrences(t, j, v) == Cardinality({i \in 1..NRows(t) : t.rows[i][j] = v})

\* row p of column j holds a most frequent present value of the column
IsModalAt(t, j, p) ==
    /\ NotNa(t.rows[p][j])
    /\ \A i \in PresentAt(t, j) :
          Occurrences(t, j, t.rows[i][j]) <= Occurrences(t, j, t.rows[p][j])

\* c is the modal value of column j of t met first when going down the column
IsFirstModalOf(c, t, j) ==
    \E p \in 1..NRows(t) :
       /\ IsModalAt(t, j, p)
       /\ \A q \in 1..(p - 1) : ~IsModalAt(t, j, q)
       /\ c = t.rows[p][j]

\* c is the smallest modal value of column j of t
IsSmallestModalOf(c, t, j) ==
    \E p \in 1..NRows(t) :
       /\ IsModalAt(t, j, p)
       /\ \A q \in 1..NRows(t) : IsModalAt(t, j, q) => ~CellLess(t.rows[q][j], t.rows[p][j])
       /\ c = t.rows[p][j]

\* C17 as stated: mode imputation of any table, one with an all-missing
\* column included, returns the table with every present cell unchanged and
\* every missing cell holding the modal value of its column that comes first
\* in the column (a column without a present value has none and stays missing)
C17_ModeFillsFirstModal ==
    ModeCalled =>
        /\ ret.status = "ok"
        /\ ret.table.cols = df.cols
        /\ NRows(ret.table) = NRows(df)
        /\ \A i \in 1..NRows(df), j \in 1..NCols(df) :
              IF NotNa(df.rows[i][j]) THEN ret.table.rows[i][j] = df.rows[i][j]
              ELSE IF PresentAt(df, j) = {} THEN IsNa(ret.table.rows[i][j])
              ELSE IsFirstModalOf(ret.table.rows[i][j], df, j)

\* what clean_missing_values does when it returns: present cells unchanged,
\* missing cells filled with the smallest modal value of their column
C17_ModeFillsSmallestModalWhenReturned ==
    (ModeCalled /\ call.op = "clean_missing_values" /\ ret.status = "ok") =>
        /\ \A j \in 1..NCols(df) : PresentAt(df, j) # {}
        /\ \A i \in 1..NRows(df), j \in 1..NCols(df) :
              IF NotNa(df.rows[i][j]) THEN ret.table.rows[i][j] = df.rows[i][j]
              ELSE IsSmallestModalOf(ret.table.rows[i][j], df, j)

\* a column whose cells are all missing: the call raises IndexError
C17_AllMissingColumnRaises ==
    /\ ModeCalled
    /\ NRows(df) > 0
    /\ \E j \in 1..NCols(df) : PresentAt(df, j) = {}
    /\ ret.status = "IndexError"

\* a tie between 3, met first, and 1: the missing cell is filled with 1
C17_TieFilledWithSmallest ==
    /\ ModeCalled
    /\ df.cols = <<"x", "t">>
    /\ Column(df, 1) = <<Num(3), Num(1), NaN>>
    /\ ret.status = "ok"
    /\ Column(ret.table, 1) = <<Num(3), Num(1), Num(1)>>

\* FillMissingValues.handle returns with the missing cells still missing
C17_HandleFillsNothing ==
    /\ ModeCalled
    /\ call.op = "FillMissingValues.handle"
    /\ HasMissing(df)
    /\ ret.status = "ok"
    /\ ret.table = df
====
